---- MODULE Spec2Model ----
\* Model of `sncast script run`: the cheatcode dispatcher of CastScriptExtension
\* (crates/sncast/src/starknet_commands/script/run.rs) together with the
\* idempotent transaction ledger (StateManager) it consults, over several runs
\* of a script sharing one state file.
EXTENDS Integers, Sequences, FiniteSets, TLC

\* ---------------------------------------------------------------------------
\* Bounds
\* ---------------------------------------------------------------------------
MaxRuns == 3
MaxNet == 4

\* Small domains of the cheatcode inputs read from the input buffer
Contracts == {1}
ClassHashes == {1}
Calldatas == {<<>>}
Salts == {5, 6}
Uniques == {TRUE}
\* (max fee, nonce) pairs read after the fingerprinted inputs
FeeNonces == {<<1, "none">>, <<2, "0x7">>}
Addresses == {1}
FnSelectors == {2}
\* get_nonce block tag felts, by their big-endian bytes without leading zeros:
\* "latest", and 0x01 (not a printable short string)
BlockTagFelts == {<<108, 97, 116, 101, 115, 116>>, <<1>>}

\* u8::is_ascii_graphic \/ u8::is_ascii_whitespace (space, \t, \n, \x0C, \r)
AsciiShortChar(b) == (b >= 33 /\ b <= 126) \/ b \in {32, 9, 10, 12, 13}

\* as_cairo_short_string (cairo_lang_runner::short_string, line 17): walks the
\* felt's big-endian bytes; a zero byte ends the string, and any non-zero
\* byte after it, or a byte that is neither ASCII graphic nor ASCII
\* whitespace, gives None. Result: the bytes kept, or "None".
as_cairo_short_string(bytes) ==
    IF \A i \in 1..Len(bytes) :
         bytes[i] /= 0 =>
           /\ AsciiShortChar(bytes[i])
           /\ \A j \in 1..(i - 1) : bytes[j] /= 0
    THEN SelectSeq(bytes, LAMBDA b : b /= 0) ELSE "None"

\* Selector strings a script can fire ("print" stands for any unknown one)
Selectors == {"call", "declare", "deploy", "invoke", "get_nonce", "tx_status", "print"}
Mutating == {"declare", "deploy", "invoke"}

\* ---------------------------------------------------------------------------
\* Transaction ids (sncast::state::hashing): hash of the action kind and the
\* action's fingerprinted parameters, modelled as the tagged tuple it hashes.
\* ---------------------------------------------------------------------------
generate_declare_tx_id(contract) == <<"declare", contract>>
generate_deploy_tx_id(class_hash, calldata, salt, unique) ==
    <<"deploy", class_hash, calldata, salt, unique>>
\* Variant that leaves the calldata out of the invoke id
generate_invoke_tx_id_nocalldata(address, fn_selector, calldata) ==
    <<"invoke", address, fn_selector>>
generate_invoke_tx_id(address, fn_selector, calldata) ==
    <<"invoke", address, fn_selector, calldata>>

\* A command result: success carries the transaction hash, failure carries none
Success(h) == [ok |-> TRUE, val |-> h]
Failure == [ok |-> FALSE, val |-> 0]
NoResult == [ok |-> FALSE, val |-> -1]

EmptyMap == [f \in {} |-> Failure]

\* Function update that adds key k
Put(m, k, v) == [x \in DOMAIN m \cup {k} |-> IF x = k THEN v ELSE m[x]]

\* ---------------------------------------------------------------------------
\* Entry function lookup (lines 318-320). A string is the sequence of its
\* characters; runner.find_function(name_suffix) (cairo-lang-runner) returns
\* the first function of the program whose debug name ends with name_suffix.
\* ---------------------------------------------------------------------------
Sep == <<":", ":">>
Str_pkg == <<"p", "k", "g">>
Str_script == <<"s", "c", "r", "i", "p", "t">>
Str_my_script == <<"m", "y", "_">> \o Str_script
Str_main == <<"m", "a", "i", "n">>
Str_helper == <<"h", "e", "l", "p", "e", "r">>

ModuleName == Str_script
name_suffix == ModuleName \o Sep \o Str_main

ScriptMain == Str_pkg \o Sep \o Str_script \o Sep \o Str_main
MyScriptMain == Str_pkg \o Sep \o Str_my_script \o Sep \o Str_main
ScriptHelper == Str_pkg \o Sep \o Str_script \o Sep \o Str_helper
Programs == {<<ScriptMain>>, <<MyScriptMain>>, <<ScriptHelper>>}

\* str::ends_with
EndsWith(str, suffix) ==
    /\ Len(suffix) <= Len(str)
    /\ SubSeq(str, Len(str) - Len(suffix) + 1, Len(str)) = suffix

\* The function found, or <<>> for BuildError::MissingFunction
find_function(prog, suffix) ==
    LET idx == {i \in 1..Len(prog) : EndsWith(prog[i], suffix)} IN
    IF idx = {} THEN <<>>
    ELSE prog[CHOOSE i \in idx : \A j \in idx : i <= j]

VARIABLES
    ledger,      \* contents of the state file on disk (tx id -> result)
    fileExists,  \* whether the state file exists on disk
    fileCorrupt, \* the state file on disk cannot be read as a ledger
    running,     \* a script run is in progress
    useFile,     \* this run was given a state file path (no --no-state-file)
    fileAtStart, \* the state file was read as a ledger when this run loaded it
    hasAccount,  \* this run has an account configured
    mem,         \* CastScriptExtension.state: the run's StateManager view
    netCalls,    \* number of network operations issued (all runs)
    runs,        \* number of runs started
    last,        \* record of the last handled cheatcode
    tick,        \* flips on every handled cheatcode
    seenThisRun, \* tx ids of mutating cheats completed in this run
    okThisRun,   \* tx ids persisted by a successful submission in this run
    mutSeen,     \* some mutating cheat was ever fired
    probe,       \* two tx id computations (inputs and results)
    outcome,     \* result of the last finished run (ScriptRunResponse or error)
    entry,       \* an entry code synthesis (signature, config, result)
    program,     \* debug names of the script's Sierra functions, in order
    hinting,     \* hints_to_params input and output
    acts,        \* inputs of the last mutating cheat; inputs of persisted ones
    bridge       \* interpreter thread, hint handler and block_on futures

vars == <<ledger, fileExists, fileCorrupt, running, useFile, fileAtStart, hasAccount, mem,
          netCalls, runs, last, tick, seenThisRun, okThisRun, mutSeen, probe,
          outcome, entry, program, hinting, acts, bridge>>

NoProbe == [k1 |-> "none", a1 |-> <<>>, k2 |-> "none", a2 |-> <<>>,
            id1 |-> <<>>, id2 |-> <<>>, done |-> FALSE]

\* Variant that reports a script panic as a failed command
RunResponsePanicErr(r, e) ==
    CASE r = "Success" -> [result |-> r, ok |-> TRUE, status |-> "success", err |-> e]
      [] r = "Panic" -> [result |-> r, ok |-> FALSE, status |-> "none", err |-> e]
      [] r = "Err" -> [result |-> r, ok |-> FALSE, status |-> "none", err |-> e]

\* run(), lines 389-407: run_function's result mapped to the command's result.
\* r is the VM outcome ("Success", "Panic", or "Err" for an interpreter or
\* hint error), e the kind of error propagated.
RunResponse(r, e) ==
    CASE r = "Success" -> [result |-> r, ok |-> TRUE, status |-> "success", err |-> e]
      [] r = "Panic" -> [result |-> r, ok |-> TRUE, status |-> "script panicked", err |-> e]
      [] r = "Err" -> [result |-> r, ok |-> FALSE, status |-> "none", err |-> e]

NoOutcome == [result |-> "none", ok |-> FALSE, status |-> "none", err |-> "none"]

NoHinting == [hints |-> <<>>, dict |-> <<>>, s2h |-> <<>>, done |-> FALSE]

NoEntry == [rets |-> <<>>, finalize |-> FALSE, res |-> "none"]

NoArgs == [sel |-> "none", args |-> <<>>, fee |-> 0, nonce |-> "none"]
NoActs == [last |-> NoArgs, saved |-> NoArgs]

\* The inputs a handler read from the input buffer
NoArmInput == [fp |-> <<>>, args |-> <<>>, fee |-> 0, nonce |-> "none", tag |-> <<>>]

\* The interpreter thread executing VM instructions, no future in flight
NoBridge == [phase |-> "vm", sel |-> "none", input |-> NoArmInput, ok |-> FALSE,
             inFlight |-> 0, vmSteps |-> 0, hints |-> 0]

NoCheat == [sel |-> "none", fp |-> <<>>, out |-> "none", res |-> NoResult, tag |-> <<>>]

\* No state file on disk
NoFile == fileExists = FALSE /\ fileCorrupt = FALSE

\* Before the first run the state file path names no file, or a file that
\* cannot be read as a ledger
DiskInit == NoFile \/ (fileExists = TRUE /\ fileCorrupt = TRUE)

\* State before the first run: no run in progress, nothing recorded
RunInit ==
    /\ ledger = EmptyMap
    /\ running = FALSE
    /\ useFile = FALSE
    /\ fileAtStart = FALSE
    /\ hasAccount = FALSE
    /\ mem = EmptyMap
    /\ netCalls = 0
    /\ runs = 0
    /\ last = NoCheat
    /\ tick = FALSE
    /\ seenThisRun = {}
    /\ okThisRun = {}
    /\ mutSeen = FALSE
    /\ acts = NoActs
    /\ bridge = NoBridge

Init ==
    /\ RunInit /\ DiskInit /\ probe = NoProbe /\ outcome = NoOutcome /\ entry = NoEntry
    /\ program = <<ScriptMain>> /\ hinting = NoHinting

\* ---------------------------------------------------------------------------
\* StateManager (sncast::state::state_file), modelled from the spec
\* ---------------------------------------------------------------------------
\* Variant that fails on a file it cannot read
StateManager_from_strict(uf) ==
    IF uf /\ fileExists /\ fileCorrupt THEN [ok |-> FALSE, map |-> EmptyMap]
    ELSE [ok |-> TRUE, map |-> IF uf /\ fileExists THEN ledger ELSE EmptyMap]

\* StateManager::from: no path -> permanently empty; a missing or corrupt
\* file -> empty; never an error
StateManager_from(uf) ==
    [ok |-> TRUE,
     map |-> IF uf /\ fileExists /\ ~fileCorrupt THEN ledger ELSE EmptyMap]

\* get_output_if_success: the stored result of tx id fp if it was a success
get_output_if_success(m, fp) ==
    IF fp \in DOMAIN m /\ m[fp].ok THEN m[fp] ELSE NoResult

\* maybe_insert_tx_entry: records res under fp only when a state file is in use
\* and res is a success; otherwise the state is left as it is
maybe_insert_tx_entry(uf, m, fp, res) ==
    IF uf /\ res.ok THEN Put(m, fp, res) ELSE m

\* ---------------------------------------------------------------------------
\* create_entry_code (lines 461-485)
\* ---------------------------------------------------------------------------
\* A return type as create_entry_code sees it: TypeInfo.droppable, and whether
\* builder.is_user_arg_type holds of its generic id (false for builtins)
RetTypeInfos == [droppable : BOOLEAN, user : BOOLEAN]

\* Variant that requires builtins to be droppable as well
create_entry_code_and(rets, finalize_segment_arena) ==
    LET droppable_return_value ==
            \A i \in 1..Len(rets) : rets[i].droppable /\ ~rets[i].user
    IN IF ~droppable_return_value /\ finalize_segment_arena
       THEN "assertPanic" ELSE "entryCode"

\* "assertPanic": the assert! at lines 478-481 aborts; "entryCode": synthesis
\* goes on to create_entry_code_from_params
create_entry_code(rets, finalize_segment_arena) ==
    LET droppable_return_value ==
            \A i \in 1..Len(rets) : rets[i].droppable \/ ~rets[i].user
    IN IF ~droppable_return_value /\ finalize_segment_arena
       THEN "assertPanic" ELSE "entryCode"

\* EntryCodeConfig::testing() (cairo-lang-runnable-utils), used at line 322:
\* it does not finalize the segment arena
EntryCodeConfig_testing == [testing |-> TRUE, finalize_segment_arena |-> FALSE]

\* Return types of a script's main as create_entry_code sees them
MainRetTypes == {<<[droppable |-> TRUE, user |-> TRUE]>>,
                 <<[droppable |-> FALSE, user |-> TRUE]>>}

\* A run that ends with a Rust panic: the process aborts with no status
Aborted(e) == [result |-> "Abort", ok |-> FALSE, status |-> "none", err |-> e]

\* ---------------------------------------------------------------------------
\* run(), lines 281-376: everything before run_function. Each `?` may end the
\* run with an error before the script executes:
\*   lines 292-316: sncast_std version check, reading the script's sierra
\*     artifact, deserialising it, setting up the runner and the builder;
\*   line 320: find_function (BuildError::MissingFunction);
\*   line 323: create_entry_code (BuildError from create_entry_code_from_params,
\*     or the assert! panic);
\*   lines 357-365: get_account, which fetches the chain id from the provider
\*     (one network operation) and then resolves the account, failing when it
\*     cannot;
\*   line 367: StateManager::from (a missing or corrupt file reads as empty).
\* setupOk and paramsOk stand for the package and the function's parameter
\* types; acc is the configured account: "none" (empty), "ok" or "bad".
\* ---------------------------------------------------------------------------
StartRun ==
    /\ ~running
    /\ runs < MaxRuns
    /\ runs' = runs + 1
    /\ last' = NoCheat
    /\ seenThisRun' = {}
    /\ okThisRun' = {}
    /\ \E setupOk \in BOOLEAN :
         IF ~setupOk
         THEN /\ outcome' = RunResponse("Err", "setupError")
              /\ UNCHANGED <<running, useFile, hasAccount, fileAtStart, mem, netCalls>>
         ELSE IF find_function(program, name_suffix) = <<>>
         THEN \* line 320: .context(...)? returns the error before anything else
              /\ outcome' = RunResponse("Err", "functionNotFound")
              /\ UNCHANGED <<running, useFile, hasAccount, fileAtStart, mem, netCalls>>
         ELSE \E rets \in MainRetTypes :
         IF create_entry_code(rets, EntryCodeConfig_testing.finalize_segment_arena)
              = "assertPanic"
         THEN /\ outcome' = Aborted("assertPanic")
              /\ UNCHANGED <<running, useFile, hasAccount, fileAtStart, mem, netCalls>>
         ELSE \E paramsOk \in BOOLEAN :
         IF ~paramsOk
         THEN /\ outcome' = RunResponse("Err", "buildError")
              /\ UNCHANGED <<running, useFile, hasAccount, fileAtStart, mem, netCalls>>
         ELSE \E acc \in {"none", "ok", "bad"} :
              LET accNet == IF acc = "none" THEN 0 ELSE 1 IN
              /\ netCalls + accNet <= MaxNet
              /\ netCalls' = netCalls + accNet
              /\ IF acc = "bad"
                 THEN /\ outcome' = RunResponse("Err", "accountError")
                      /\ UNCHANGED <<running, useFile, hasAccount, fileAtStart, mem>>
                 ELSE \E uf \in BOOLEAN :
                      LET sm == StateManager_from(uf) IN
                      IF ~sm.ok
                      THEN \* line 367: StateManager::from(...)?
                           /\ outcome' = RunResponse("Err", "stateFileError")
                           /\ UNCHANGED <<running, useFile, hasAccount, fileAtStart, mem>>
                      ELSE /\ useFile' = uf
                           /\ hasAccount' = (acc = "ok")
                           /\ fileAtStart' = (uf /\ fileExists /\ ~fileCorrupt)
                           /\ mem' = sm.map
                           /\ running' = TRUE
                           /\ outcome' = NoOutcome
    /\ UNCHANGED <<ledger, fileExists, fileCorrupt, tick, mutSeen, acts, probe, entry, program,
                   hinting, bridge>>

\* runner.run_function returns Ok (Success or Panic): the run completes
EndRun ==
    /\ running /\ bridge.phase = "vm"
    /\ running' = FALSE
    /\ \E r \in {"Success", "Panic"} : outcome' = RunResponse(r, "none")
    /\ UNCHANGED <<ledger, fileExists, fileCorrupt, useFile, fileAtStart, hasAccount, mem,
                   netCalls, runs, last, tick, seenThisRun, okThisRun, mutSeen, acts,
                   probe, entry, program, hinting, bridge>>

\* ---------------------------------------------------------------------------
\* CastScriptExtension::handle_cheatcode
\* ---------------------------------------------------------------------------
\* Variants of the selector match used to exercise the properties below
DispatchLenient(sel) ==
    IF sel \in {"call", "declare", "deploy", "invoke", "get_nonce", "tx_status"}
    THEN sel ELSE "call"
DispatchCallAsInvoke(sel) ==
    IF sel = "call" THEN "invoke"
    ELSE IF sel \in {"declare", "deploy", "invoke", "get_nonce", "tx_status"}
    THEN sel ELSE "forward"

\* The `match selector` arms
Dispatch(sel) ==
    IF sel \in {"call", "declare", "deploy", "invoke", "get_nonce", "tx_status"}
    THEN sel ELSE "forward"

\* Variants of the mutating arms used to exercise the properties below
MutatingCheatNoCache(sel, fp) ==
    LET cached == NoResult IN
    /\ mutSeen' = TRUE
    /\ tick' = ~tick
    /\ IF cached /= NoResult
       THEN /\ last' = [sel |-> sel, fp |-> fp, out |-> "cached", res |-> cached, tag |-> <<>>]
            /\ seenThisRun' = seenThisRun \cup {fp}
            /\ UNCHANGED <<ledger, fileExists, fileCorrupt, running, mem, netCalls, okThisRun>>
       ELSE IF ~hasAccount
       THEN /\ last' = [sel |-> sel, fp |-> fp, out |-> "noAccount", res |-> NoResult, tag |-> <<>>]
            /\ running' = FALSE
            /\ UNCHANGED <<ledger, fileExists, fileCorrupt, mem, netCalls, seenThisRun, okThisRun>>
       ELSE \E ok \in BOOLEAN, writeOk \in BOOLEAN :
            LET res == IF ok THEN Success(netCalls + 1) ELSE Failure
                m2 == maybe_insert_tx_entry(useFile, mem, fp, res)
                writes == useFile /\ res.ok
            IN
            /\ netCalls' = netCalls + 1
            /\ IF writes /\ ~writeOk
               THEN /\ last' = [sel |-> sel, fp |-> fp, out |-> "persistError", res |-> res, tag |-> <<>>]
                    /\ running' = FALSE
                    /\ UNCHANGED <<ledger, fileExists, fileCorrupt, mem, seenThisRun, okThisRun>>
               ELSE /\ writeOk
                    /\ last' = [sel |-> sel, fp |-> fp, out |-> "submitted", res |-> res, tag |-> <<>>]
                    /\ mem' = m2
                    /\ ledger' = IF writes THEN m2 ELSE ledger
                    /\ fileExists' = (fileExists \/ writes)
                    /\ fileCorrupt' = (fileCorrupt /\ ~writes)
                    /\ seenThisRun' = seenThisRun \cup {fp}
                    /\ okThisRun' = IF writes THEN okThisRun \cup {fp} ELSE okThisRun
                    /\ UNCHANGED running

MutatingCheatStoreAll(sel, fp) ==
    LET cached == get_output_if_success(mem, fp) IN
    /\ mutSeen' = TRUE
    /\ tick' = ~tick
    /\ IF cached /= NoResult
       THEN /\ last' = [sel |-> sel, fp |-> fp, out |-> "cached", res |-> cached, tag |-> <<>>]
            /\ seenThisRun' = seenThisRun \cup {fp}
            /\ UNCHANGED <<ledger, fileExists, fileCorrupt, running, mem, netCalls, okThisRun>>
       ELSE IF ~hasAccount
       THEN /\ last' = [sel |-> sel, fp |-> fp, out |-> "noAccount", res |-> NoResult, tag |-> <<>>]
            /\ running' = FALSE
            /\ UNCHANGED <<ledger, fileExists, fileCorrupt, mem, netCalls, seenThisRun, okThisRun>>
       ELSE \E ok \in BOOLEAN, writeOk \in BOOLEAN :
            LET res == IF ok THEN Success(netCalls + 1) ELSE Failure
                m2 == Put(mem, fp, res)
                writes == useFile /\ res.ok
            IN
            /\ netCalls' = netCalls + 1
            /\ IF writes /\ ~writeOk
               THEN /\ last' = [sel |-> sel, fp |-> fp, out |-> "persistError", res |-> res, tag |-> <<>>]
                    /\ running' = FALSE
                    /\ UNCHANGED <<ledger, fileExists, fileCorrupt, mem, seenThisRun, okThisRun>>
               ELSE /\ writeOk
                    /\ last' = [sel |-> sel, fp |-> fp, out |-> "submitted", res |-> res, tag |-> <<>>]
                    /\ mem' = m2
                    /\ ledger' = IF writes THEN m2 ELSE ledger
                    /\ fileExists' = (fileExists \/ writes)
                    /\ fileCorrupt' = (fileCorrupt /\ ~writes)
                    /\ seenThisRun' = seenThisRun \cup {fp}
                    /\ okThisRun' = IF writes THEN okThisRun \cup {fp} ELSE okThisRun
                    /\ UNCHANGED running

MutatingCheatAccountFirst(sel, fp) ==
    LET cached == get_output_if_success(mem, fp) IN
    /\ mutSeen' = TRUE
    /\ tick' = ~tick
    /\ IF hasAccount /\ cached /= NoResult
       THEN /\ last' = [sel |-> sel, fp |-> fp, out |-> "cached", res |-> cached, tag |-> <<>>]
            /\ seenThisRun' = seenThisRun \cup {fp}
            /\ UNCHANGED <<ledger, fileExists, fileCorrupt, running, mem, netCalls, okThisRun>>
       ELSE IF ~hasAccount
       THEN /\ last' = [sel |-> sel, fp |-> fp, out |-> "noAccount", res |-> NoResult, tag |-> <<>>]
            /\ running' = FALSE
            /\ UNCHANGED <<ledger, fileExists, fileCorrupt, mem, netCalls, seenThisRun, okThisRun>>
       ELSE \E ok \in BOOLEAN, writeOk \in BOOLEAN :
            LET res == IF ok THEN Success(netCalls + 1) ELSE Failure
                m2 == maybe_insert_tx_entry(useFile, mem, fp, res)
                writes == useFile /\ res.ok
            IN
            /\ netCalls' = netCalls + 1
            /\ IF writes /\ ~writeOk
               THEN /\ last' = [sel |-> sel, fp |-> fp, out |-> "persistError", res |-> res, tag |-> <<>>]
                    /\ running' = FALSE
                    /\ UNCHANGED <<ledger, fileExists, fileCorrupt, mem, seenThisRun, okThisRun>>
               ELSE /\ writeOk
                    /\ last' = [sel |-> sel, fp |-> fp, out |-> "submitted", res |-> res, tag |-> <<>>]
                    /\ mem' = m2
                    /\ ledger' = IF writes THEN m2 ELSE ledger
                    /\ fileExists' = (fileExists \/ writes)
                    /\ fileCorrupt' = (fileCorrupt /\ ~writes)
                    /\ seenThisRun' = seenThisRun \cup {fp}
                    /\ okThisRun' = IF writes THEN okThisRun \cup {fp} ELSE okThisRun
                    /\ UNCHANGED running

MutatingCheatIgnorePersistErr(sel, fp) ==
    LET cached == get_output_if_success(mem, fp) IN
    /\ mutSeen' = TRUE
    /\ tick' = ~tick
    /\ IF cached /= NoResult
       THEN /\ last' = [sel |-> sel, fp |-> fp, out |-> "cached", res |-> cached, tag |-> <<>>]
            /\ seenThisRun' = seenThisRun \cup {fp}
            /\ UNCHANGED <<ledger, fileExists, fileCorrupt, running, mem, netCalls, okThisRun>>
       ELSE IF ~hasAccount
       THEN /\ last' = [sel |-> sel, fp |-> fp, out |-> "noAccount", res |-> NoResult, tag |-> <<>>]
            /\ running' = FALSE
            /\ UNCHANGED <<ledger, fileExists, fileCorrupt, mem, netCalls, seenThisRun, okThisRun>>
       ELSE \E ok \in BOOLEAN, writeOk \in BOOLEAN :
            LET res == IF ok THEN Success(netCalls + 1) ELSE Failure
                m2 == maybe_insert_tx_entry(useFile, mem, fp, res)
                writes == useFile /\ res.ok
            IN
            /\ netCalls' = netCalls + 1
            /\ IF writes /\ ~writeOk
               THEN /\ last' = [sel |-> sel, fp |-> fp, out |-> "persistError", res |-> res, tag |-> <<>>]
                    /\ running' = TRUE
                    /\ UNCHANGED <<ledger, fileExists, fileCorrupt, mem, seenThisRun, okThisRun>>
               ELSE /\ writeOk
                    /\ last' = [sel |-> sel, fp |-> fp, out |-> "submitted", res |-> res, tag |-> <<>>]
                    /\ mem' = m2
                    /\ ledger' = IF writes THEN m2 ELSE ledger
                    /\ fileExists' = (fileExists \/ writes)
                    /\ fileCorrupt' = (fileCorrupt /\ ~writes)
                    /\ seenThisRun' = seenThisRun \cup {fp}
                    /\ okThisRun' = IF writes THEN okThisRun \cup {fp} ELSE okThisRun
                    /\ UNCHANGED running

\* The declare / deploy / invoke arms after the tx id is computed: look the id
\* up, return the cached output on a hit; otherwise self.account()? (evaluated
\* before the network future runs), submit through block_on, then
\* maybe_insert_tx_entry(...)? and return the command result to the script.
\* The arm's outcomes: a cached success returned as is (lines 141-145)
MutHit(sel, fp, cached) ==
    /\ last' = [sel |-> sel, fp |-> fp, out |-> "cached", res |-> cached, tag |-> <<>>]
    /\ seenThisRun' = seenThisRun \cup {fp}
    /\ UNCHANGED <<ledger, fileExists, fileCorrupt, running, mem, netCalls, okThisRun>>

\* ... self.account()? failing with 'Account not defined' (lines 149, 189, 226)
MutNoAccount(sel, fp) ==
    /\ last' = [sel |-> sel, fp |-> fp, out |-> "noAccount", res |-> NoResult, tag |-> <<>>]
    /\ running' = FALSE
    /\ UNCHANGED <<ledger, fileExists, fileCorrupt, mem, netCalls, seenThisRun, okThisRun>>

\* ... and, once block_on has returned the command result res,
\* maybe_insert_tx_entry(...)? (lines 158-162, 196-200, 233-237); writeOk
\* is whether writing the state file succeeds
MutSubmitted(sel, fp, res, writeOk) ==
    LET m2 == maybe_insert_tx_entry(useFile, mem, fp, res)
        writes == useFile /\ res.ok
    IN
    IF writes /\ ~writeOk
    THEN /\ last' = [sel |-> sel, fp |-> fp, out |-> "persistError", res |-> res, tag |-> <<>>]
         /\ running' = FALSE
         /\ UNCHANGED <<ledger, fileExists, fileCorrupt, mem, seenThisRun, okThisRun>>
    ELSE /\ writeOk
         /\ last' = [sel |-> sel, fp |-> fp, out |-> "submitted", res |-> res, tag |-> <<>>]
         /\ mem' = m2
         /\ ledger' = IF writes THEN m2 ELSE ledger
         /\ fileExists' = (fileExists \/ writes)
         /\ fileCorrupt' = (fileCorrupt /\ ~writes)
         /\ seenThisRun' = seenThisRun \cup {fp}
         /\ okThisRun' = IF writes THEN okThisRun \cup {fp} ELSE okThisRun
         /\ UNCHANGED running

MutatingCheat(sel, fp) ==
    LET cached == get_output_if_success(mem, fp) IN
    /\ mutSeen' = TRUE
    /\ tick' = ~tick
    /\ IF cached /= NoResult
       THEN MutHit(sel, fp, cached)
       ELSE IF ~hasAccount
       THEN MutNoAccount(sel, fp)
       ELSE \E ok \in BOOLEAN, writeOk \in BOOLEAN :
            /\ netCalls' = netCalls + 1
            /\ MutSubmitted(sel, fp, IF ok THEN Success(netCalls + 1) ELSE Failure, writeOk)

\* What a cheat leaves alone; a hint error (running' = FALSE) makes
\* run_function return Err, which run() propagates (line 406); a Rust panic
\* in the handler aborts the process instead
CheatFrame ==
    /\ UNCHANGED <<useFile, fileAtStart, hasAccount, runs, probe, entry, program,
                   hinting, bridge>>
    /\ outcome' = IF running' THEN outcome
                  ELSE IF last'.out = "PANIC" THEN Aborted("PANIC")
                  ELSE RunResponse("Err", last'.out)

\* The inputs a mutating arm read (including the ScriptFeeSettings and the
\* nonce, lines 128-129, 170-171, 208-209), and those of the latest call
\* whose entry was added to the state file
RecordArgs(sel, args, fee, nonce) ==
    LET a == [sel |-> sel, args |-> args, fee |-> fee, nonce |-> nonce] IN
    acts' = [last |-> a,
             saved |-> IF last'.fp \in DOMAIN ledger' /\ last'.fp \notin DOMAIN ledger
                       THEN a ELSE acts.saved]

\* Variant that hashes the fee settings into the deploy id
DeployFeeInId ==
    /\ running /\ netCalls < MaxNet
    /\ \E sel \in Selectors : Dispatch(sel) = "deploy"
         /\ \E ch \in ClassHashes, cd \in Calldatas, s \in Salts, u \in Uniques,
               <<fee, nonce>> \in FeeNonces :
              /\ MutatingCheat(sel, <<"deploy", ch, cd, s, u, fee>>)
              /\ RecordArgs(sel, <<ch, cd, s, u>>, fee, nonce)
    /\ CheatFrame

\* "declare" arm (lines 126-164)
Declare ==
    /\ running /\ netCalls < MaxNet
    /\ \E sel \in Selectors : Dispatch(sel) = "declare"
         /\ \E c \in Contracts, <<fee, nonce>> \in FeeNonces :
              /\ MutatingCheat(sel, generate_declare_tx_id(c))
              /\ RecordArgs(sel, <<c>>, fee, nonce)
    /\ CheatFrame

\* "deploy" arm (lines 165-203)
Deploy ==
    /\ running /\ netCalls < MaxNet
    /\ \E sel \in Selectors : Dispatch(sel) = "deploy"
         /\ \E ch \in ClassHashes, cd \in Calldatas, s \in Salts, u \in Uniques,
               <<fee, nonce>> \in FeeNonces :
              /\ MutatingCheat(sel, generate_deploy_tx_id(ch, cd, s, u))
              /\ RecordArgs(sel, <<ch, cd, s, u>>, fee, nonce)
    /\ CheatFrame

\* "invoke" arm (lines 204-240)
Invoke ==
    /\ running /\ netCalls < MaxNet
    /\ \E sel \in Selectors : Dispatch(sel) = "invoke"
         /\ \E a \in Addresses, f \in FnSelectors, cd \in Calldatas,
               <<fee, nonce>> \in FeeNonces :
              /\ MutatingCheat(sel, generate_invoke_tx_id(a, f, cd))
              /\ RecordArgs(sel, <<a, f, cd>>, fee, nonce)
    /\ CheatFrame

\* "call" and "tx_status" arms (lines 112-125, 253-261): one network query,
\* its Ok or Err result serialized back to the script
Query ==
    /\ running /\ netCalls < MaxNet
    /\ \E sel \in Selectors : Dispatch(sel) \in {"call", "tx_status"}
         /\ last' = [sel |-> sel, fp |-> <<>>, out |-> "returned", res |-> NoResult, tag |-> <<>>]
    /\ netCalls' = netCalls + 1
    /\ tick' = ~tick
    /\ UNCHANGED <<ledger, fileExists, fileCorrupt, running, mem, seenThisRun, okThisRun, mutSeen, acts>>
    /\ CheatFrame

\* Variant that checks the account before converting the block tag
GetNonceAccountFirst ==
    /\ running /\ netCalls < MaxNet
    /\ \E sel \in Selectors, tag \in BlockTagFelts : Dispatch(sel) = "get_nonce"
         /\ IF ~hasAccount
            THEN /\ last' = [sel |-> sel, fp |-> <<>>, out |-> "noAccount", res |-> NoResult, tag |-> tag]
                 /\ running' = FALSE
                 /\ UNCHANGED netCalls
            ELSE IF as_cairo_short_string(tag) = "None"
            THEN /\ last' = [sel |-> sel, fp |-> <<>>, out |-> "PANIC", res |-> NoResult, tag |-> tag]
                 /\ running' = FALSE
                 /\ UNCHANGED netCalls
            ELSE \E ok \in BOOLEAN :
                 /\ last' = [sel |-> sel, fp |-> <<>>,
                              out |-> IF ok THEN "returned" ELSE "error", res |-> NoResult, tag |-> tag]
                 /\ running' = ok
                 /\ netCalls' = netCalls + 1
    /\ tick' = ~tick
    /\ UNCHANGED <<ledger, fileExists, fileCorrupt, mem, seenThisRun, okThisRun, mutSeen, acts>>
    /\ CheatFrame

\* "get_nonce" arm (lines 241-252): the block tag is converted with .expect
\* (a Rust panic when it is not a short string), then self.account()? and
\* get_nonce(...)? are evaluated
GetNonce ==
    /\ running /\ netCalls < MaxNet
    /\ \E sel \in Selectors, tag \in BlockTagFelts : Dispatch(sel) = "get_nonce"
         /\ IF as_cairo_short_string(tag) = "None"
            THEN /\ last' = [sel |-> sel, fp |-> <<>>, out |-> "PANIC", res |-> NoResult, tag |-> tag]
                 /\ running' = FALSE
                 /\ UNCHANGED netCalls
            ELSE IF ~hasAccount
            THEN /\ last' = [sel |-> sel, fp |-> <<>>, out |-> "noAccount", res |-> NoResult, tag |-> tag]
                 /\ running' = FALSE
                 /\ UNCHANGED netCalls
            ELSE \E ok \in BOOLEAN :
                 /\ last' = [sel |-> sel, fp |-> <<>>,
                              out |-> IF ok THEN "returned" ELSE "error", res |-> NoResult, tag |-> tag]
                 /\ running' = ok
                 /\ netCalls' = netCalls + 1
    /\ tick' = ~tick
    /\ UNCHANGED <<ledger, fileExists, fileCorrupt, mem, seenThisRun, okThisRun, mutSeen, acts>>
    /\ CheatFrame

\* default arm (line 262): Ok(CheatcodeHandlingResult::Forwarded); the inner
\* runtime then handles (or rejects) the cheatcode
Forward ==
    /\ running
    /\ \E sel \in Selectors : Dispatch(sel) = "forward"
         /\ last' = [sel |-> sel, fp |-> <<>>, out |-> "forwarded", res |-> NoResult, tag |-> <<>>]
    /\ \E innerOk \in BOOLEAN : running' = innerOk
    /\ tick' = ~tick
    /\ UNCHANGED <<ledger, fileExists, fileCorrupt, mem, netCalls, seenThisRun, okThisRun, mutSeen, acts>>
    /\ CheatFrame

\* A few DeprecatedSyscallSelector values a script can reach
SyscallSelectors == {"StorageWrite", "CallContract"}

\* Variant that lets storage reads and writes through to the inner handler
override_system_call_storage(selector) ==
    IF selector = "StorageWrite"
    THEN [handled |-> FALSE, err |-> "none"]
    ELSE [handled |-> TRUE, err |-> "Starknet syscalls are not supported"]

\* CastScriptExtension::override_system_call (lines 268-277): always Err
override_system_call(selector) ==
    [handled |-> TRUE, err |-> "Starknet syscalls are not supported"]

\* The script executes a native syscall hint: the extension's override runs
\* first; its Err is a hint error that aborts run_function; an unhandled
\* syscall would reach the inner SyscallHintProcessor.
Syscall ==
    /\ running /\ bridge.phase = "vm"
    /\ \E s \in SyscallSelectors :
         LET r == override_system_call(s) IN
         /\ last' = [sel |-> s, fp |-> <<>>,
                     out |-> IF r.handled THEN r.err ELSE "executed", res |-> NoResult, tag |-> <<>>]
         /\ running' = ~r.handled
    /\ tick' = ~tick
    /\ UNCHANGED <<ledger, fileExists, fileCorrupt, mem, netCalls, seenThisRun, okThisRun, mutSeen, acts>>
    /\ CheatFrame

Next == StartRun \/ EndRun \/ Declare \/ Deploy \/ Invoke \/ Query \/ GetNonce \/ Forward
        \/ Syscall

Spec == Init /\ [][Next]_vars

\* Runs of a script whose compiled program is any of Programs
LookupInit ==
    /\ RunInit /\ DiskInit /\ probe = NoProbe /\ outcome = NoOutcome /\ entry = NoEntry
    /\ program \in Programs /\ hinting = NoHinting

LookupSpec == LookupInit /\ [][Next]_vars

\* ---------------------------------------------------------------------------
\* Properties
\* ---------------------------------------------------------------------------
Cheated == tick' /= tick

\* C1: replay safety. In a run using the state file, a mutating cheat whose tx
\* id is already persisted returns the cached result with no network call; a
\* deploy that differs only in its salt has another id and, on a miss with an
\* account, makes exactly one submission.
C1_ReplaySafety ==
    [][ /\ (Cheated /\ last'.sel \in Mutating /\ useFile /\ last'.fp \in DOMAIN ledger)
             => (/\ last'.out = "cached"
                 /\ last'.res = ledger[last'.fp]
                 /\ netCalls' = netCalls)
        /\ (Cheated /\ last'.sel = "deploy" /\ hasAccount
              /\ get_output_if_success(mem, last'.fp) = NoResult)
             => netCalls' = netCalls + 1
        /\ \A ch \in ClassHashes, cd \in Calldatas, u \in Uniques :
             generate_deploy_tx_id(ch, cd, 5, u) /= generate_deploy_tx_id(ch, cd, 6, u)
      ]_vars

C1_Witness ==
    /\ last.sel = "deploy" /\ last.out = "cached"
    /\ last.fp \notin okThisRun /\ runs >= 2

\* C2: every entry of the ledger (on disk and in the run's view) is a success;
\* a failed submission leaves its tx id absent.
C2_OnlySuccesses ==
    /\ \A f \in DOMAIN ledger : ledger[f].ok
    /\ \A f \in DOMAIN mem : mem[f].ok

C2_Witness ==
    /\ last.out = "submitted" /\ ~last.res.ok
    /\ last.fp \notin DOMAIN ledger /\ useFile

\* C3: the ledger is append-only: no persisted entry is ever removed or changed.
C3_AppendOnly ==
    [][\A f \in DOMAIN ledger : f \in DOMAIN ledger' /\ ledger'[f] = ledger[f]]_vars

C3_Witness ==
    /\ Cardinality(DOMAIN ledger) >= 2
    /\ last.out = "cached"

\* Bounded inputs for the tx id computations
InjFelts == {1, 2}
InjCalldatas == {<<>>, <<1>>, <<1, 2>>}
InjArgs ==
    {<<"declare", <<c>>>> : c \in InjFelts}
    \cup {<<"deploy", <<ch, cd, s, u>>>> :
            ch \in InjFelts, cd \in InjCalldatas, s \in InjFelts, u \in BOOLEAN}
    \cup {<<"invoke", <<a, f, cd>>>> :
            a \in InjFelts, f \in InjFelts, cd \in InjCalldatas}

\* The id computed by the arm of the given kind (lines 139, 173-174, 211-212)
TxIdOf(kind, args) ==
    CASE kind = "declare" -> generate_declare_tx_id(args[1])
      [] kind = "deploy" -> generate_deploy_tx_id(args[1], args[2], args[3], args[4])
      [] kind = "invoke" -> generate_invoke_tx_id(args[1], args[2], args[3])

\* Two cheat inputs drawn from the bounded sets, before their ids are computed
IdInit ==
    /\ RunInit /\ NoFile /\ outcome = NoOutcome /\ entry = NoEntry /\ program = <<>>
    /\ hinting = NoHinting
    /\ \E x, y \in InjArgs :
         probe = [k1 |-> x[1], a1 |-> x[2], k2 |-> y[1], a2 |-> y[2],
                  id1 |-> <<>>, id2 |-> <<>>, done |-> FALSE]

ComputeIds ==
    /\ ~probe.done
    /\ probe' = [probe EXCEPT !.id1 = TxIdOf(probe.k1, probe.a1),
                              !.id2 = TxIdOf(probe.k2, probe.a2),
                              !.done = TRUE]
    /\ UNCHANGED <<ledger, fileExists, fileCorrupt, running, useFile, fileAtStart, hasAccount,
                   mem, netCalls, runs, last, tick, seenThisRun, okThisRun, mutSeen, acts,
                   outcome, entry, program, hinting, bridge>>

IdSpec == IdInit /\ [][ComputeIds]_vars

\* C4: tx ids are injective: ids of different kinds never coincide, and two ids
\* of the same kind coincide only for equal fingerprinted parameters.
C4_TxIdsInjective ==
    probe.done => (probe.id1 = probe.id2 => (probe.k1 = probe.k2 /\ probe.a1 = probe.a2))

C4_Witness ==
    /\ probe.done /\ probe.k1 = "declare" /\ probe.k2 = "invoke"
    /\ probe.a1[1] = probe.a2[1]

\* C5 (as stated): any mutating cheat fired with no account fails with the
\* 'Account not defined' error and makes no network call, whatever the ledger.
C5_Original ==
    [][(Cheated /\ last'.sel \in Mutating /\ ~hasAccount)
         => (last'.out = "noAccount" /\ netCalls' = netCalls)]_vars

\* C5 (amended): with no account a mutating cheat makes no network call; it
\* fails with 'Account not defined' (ending the run) exactly when its tx id has
\* no cached success, and otherwise returns the cached result.
C5_NoAccount ==
    [][(Cheated /\ last'.sel \in Mutating /\ ~hasAccount)
         => (/\ netCalls' = netCalls
             /\ (last'.out = "noAccount"
                   <=> get_output_if_success(mem, last'.fp) = NoResult)
             /\ (last'.out = "noAccount" => ~running')
             /\ (last'.out /= "noAccount" => last'.res = mem[last'.fp]))]_vars

C5_Witness ==
    /\ ~hasAccount /\ last.sel \in Mutating /\ last.out = "noAccount"
    /\ DOMAIN ledger /= {}

\* C6 (as stated): declaring the same contract a second time in one run makes
\* no submission and returns the cached result.
C6_Original ==
    [][(Cheated /\ last'.sel = "declare" /\ last'.fp \in seenThisRun)
         => (netCalls' = netCalls /\ last'.out = "cached")]_vars

\* C6 (amended): in a run using the state file, once a declare of a contract
\* has succeeded and been persisted, a second declare of it in the same run
\* makes no submission and returns the cached result.
C6_DeclareOnce ==
    [][(Cheated /\ last'.sel = "declare" /\ useFile /\ last'.fp \in okThisRun)
         => (/\ netCalls' = netCalls
             /\ last'.out = "cached"
             /\ last'.res = mem[last'.fp])]_vars

C6_Witness ==
    /\ last.sel = "declare" /\ last.out = "cached"
    /\ last.fp \in okThisRun

\* C7: a selector outside the six handled ones is forwarded: no network call,
\* ledger and run view unchanged.
C7_ForwardUnknown ==
    [][(Cheated /\ last'.sel \in Selectors /\ last'.sel \notin
          {"call", "declare", "deploy", "invoke", "get_nonce", "tx_status"})
         => (/\ last'.out = "forwarded"
             /\ netCalls' = netCalls
             /\ ledger' = ledger
             /\ mem' = mem
             /\ fileExists' = fileExists)]_vars

C7_Witness ==
    last.sel = "print" /\ last.out = "forwarded"

\* C8: call, get_nonce and tx_status leave the ledger (file and run view)
\* untouched, so a script using only them never creates ledger entries.
C8_QueriesLeaveLedger ==
    [][(Cheated /\ last'.sel \in {"call", "get_nonce", "tx_status"})
         => (ledger' = ledger /\ mem' = mem /\ fileExists' = fileExists)]_vars

C8_Witness ==
    /\ last.sel = "get_nonce" /\ last.out = "returned"
    /\ DOMAIN ledger /= {}

C10_FailureNotCached ==
    [][(Cheated /\ last'.sel \in Mutating /\ last'.out = "submitted" /\ ~last'.res.ok)
         => (/\ netCalls' = netCalls + 1
             /\ running'
             /\ ledger' = ledger
             /\ mem' = mem)]_vars

C10_Witness ==
    /\ running /\ useFile /\ last.sel = "invoke"
    /\ last.out = "submitted" /\ ~last.res.ok

\* C11: run outcome mapping. A normal return gives Ok with status "success", a
\* script panic Ok with status "script panicked"; an interpreter or hint error
\* gives an Err and no script status.
C11_OutcomeMapping ==
    (~running /\ outcome.result /= "none") =>
      /\ (outcome.result = "Success" => (outcome.ok /\ outcome.status = "success"))
      /\ (outcome.result = "Panic" => (outcome.ok /\ outcome.status = "script panicked"))
      /\ (outcome.result = "Err" => (~outcome.ok /\ outcome.status = "none"))

C11_Witness ==
    ~running /\ outcome.result = "Panic" /\ DOMAIN ledger /= {}

\* C12: every native syscall fails with 'Starknet syscalls are not supported',
\* aborting the run with no ledger, state or network effect.
C12_SyscallsUnsupported ==
    [][(Cheated /\ last'.sel \in SyscallSelectors)
         => (/\ last'.out = "Starknet syscalls are not supported"
             /\ ~running'
             /\ outcome'.result = "Err"
             /\ ledger' = ledger /\ mem' = mem /\ netCalls' = netCalls)]_vars

C12_Witness ==
    last.sel = "StorageWrite" /\ outcome.result = "Err"

\* C18: when persisting a successful result fails, the cheat ends the run with
\* an error after the one submission, and the tx id stays absent from the ledger.
C18_PersistFailure ==
    [][(Cheated /\ last'.out = "persistError")
         => (/\ last'.res.ok
             /\ netCalls' = netCalls + 1
             /\ ~running'
             /\ outcome'.result = "Err"
             /\ last'.fp \notin DOMAIN ledger')]_vars

C18_Witness ==
    last.out = "persistError" /\ outcome.result = "Err" /\ useFile

\* C19 (as stated): get_nonce with no account fails with 'Account not defined'
\* as a hint error, with no network call, instead of returning a nonce.
C19_Original ==
    [][(Cheated /\ last'.sel = "get_nonce" /\ ~hasAccount)
         => (/\ last'.out = "noAccount"
             /\ netCalls' = netCalls
             /\ ~running'
             /\ outcome'.result = "Err" /\ outcome'.err = "noAccount")]_vars

\* C19 (amended): get_nonce with no account never returns a nonce and makes no
\* network call: it fails with 'Account not defined' as a hint error when its
\* block tag is a short string, and otherwise the .expect on the tag panics
\* (aborting the process) before the account is looked at.
C19_NonceNeedsAccount ==
    [][(Cheated /\ last'.sel = "get_nonce" /\ ~hasAccount)
         => (/\ netCalls' = netCalls
             /\ ~running'
             /\ (as_cairo_short_string(last'.tag) /= "None"
                   => (/\ last'.out = "noAccount"
                       /\ outcome'.result = "Err" /\ outcome'.err = "noAccount"))
             /\ (as_cairo_short_string(last'.tag) = "None"
                   => (last'.out = "PANIC" /\ outcome'.result = "Abort")))]_vars

C19_Witness ==
    /\ last.sel = "get_nonce" /\ ~hasAccount
    /\ as_cairo_short_string(last.tag) = "None" /\ outcome.err = "PANIC"

\* ---------------------------------------------------------------------------
\* create_entry_code (lines 461-485)
\* ---------------------------------------------------------------------------
MaxRet == 3

\* A function signature's return types and an EntryCodeConfig
EntryInit ==
    /\ RunInit /\ NoFile /\ outcome = NoOutcome /\ probe = NoProbe /\ program = <<>>
    /\ hinting = NoHinting
    /\ \E n \in 0..MaxRet, fin \in BOOLEAN :
         \E ts \in [1..n -> RetTypeInfos] :
           entry = [rets |-> ts, finalize |-> fin, res |-> "none"]

BuildEntry ==
    /\ entry.res = "none"
    /\ entry' = [entry EXCEPT !.res = create_entry_code(entry.rets, entry.finalize)]
    /\ UNCHANGED <<ledger, fileExists, fileCorrupt, running, useFile, fileAtStart, hasAccount,
                   mem, netCalls, runs, last, tick, seenThisRun, okThisRun, mutSeen, acts,
                   probe, outcome, program, hinting, bridge>>

EntrySpec == EntryInit /\ [][BuildEntry]_vars

\* C14: synthesis aborts exactly when segment arena finalization is requested
\* and some return type is a user value that is not droppable.
C14_FinalizeRejected ==
    entry.res /= "none" =>
      (entry.res = "assertPanic"
         <=> (entry.finalize
              /\ \E i \in 1..Len(entry.rets) :
                   entry.rets[i].user /\ ~entry.rets[i].droppable))

C14_Witness ==
    /\ entry.res = "assertPanic"
    /\ \E i \in 1..Len(entry.rets) : ~entry.rets[i].user /\ ~entry.rets[i].droppable

\* C15: when the program has no '<module>::main' function, the run fails with
\* the 'Failed to find main function' error, before any cheat or network call
\* (once the package set-up steps of lines 292-316 have succeeded).
C15_MainNotFound ==
    [][(/\ runs' = runs + 1 /\ outcome'.err /= "setupError"
        /\ \A i \in 1..Len(program) : program[i] /= ScriptMain)
         => (/\ ~running'
             /\ outcome'.err = "functionNotFound"
             /\ netCalls' = netCalls)]_vars

\* ---------------------------------------------------------------------------
\* hints_to_params (lines 487-508)
\* ---------------------------------------------------------------------------
MaxHintsAt == 2

\* A few casm hints: their variant and an operand
Hints == [kind : {"AllocSegment", "TestLessThan"}, arg : {0, 1}]

\* Hint::representing_string: the hint's Debug rendering, every field included
representing_string(h) == <<h.kind, h.arg>>

\* hint_to_hint_params: HintParams whose code is the representing string
hint_to_hint_params(h) == [code |-> representing_string(h)]

\* HashMap::insert
MapInsert(m, k, v) == [x \in DOMAIN m \cup {k} |-> IF x = k THEN v ELSE m[x]]

\* `for hint in offset_hints.clone() { string_to_hint.insert(...) }`
RECURSIVE InsertHints(_, _)
InsertHints(s2h, hs) ==
    IF hs = <<>> THEN s2h
    ELSE InsertHints(MapInsert(s2h, representing_string(Head(hs)), Head(hs)), Tail(hs))

RECURSIVE InsertHintsFirst(_, _)
InsertHintsFirst(s2h, hs) ==
    IF hs = <<>> THEN s2h
    ELSE MapInsert(s2h, representing_string(Head(hs)), Head(hs))

\* The outer loop over (offset, offset_hints)
RECURSIVE HintsLoop(_, _, _)
HintsLoop(hints, dict, s2h) ==
    IF hints = <<>> THEN <<dict, s2h>>
    ELSE LET off == Head(hints)[1]
             hs == Head(hints)[2]
         IN HintsLoop(Tail(hints),
                      MapInsert(dict, off, [i \in 1..Len(hs) |-> hint_to_hint_params(hs[i])]),
                      InsertHints(s2h, hs))

RECURSIVE HintsLoopFirst(_, _, _)
HintsLoopFirst(hints, dict, s2h) ==
    IF hints = <<>> THEN <<dict, s2h>>
    ELSE LET off == Head(hints)[1]
             hs == Head(hints)[2]
         IN HintsLoopFirst(Tail(hints),
                      MapInsert(dict, off, [i \in 1..Len(hs) |-> hint_to_hint_params(hs[i])]),
                      InsertHintsFirst(s2h, hs))

\* Variant that registers only the first hint of each offset by string
hints_to_params_first(hints) == HintsLoopFirst(hints, <<>>, <<>>)

\* (hints_dict, string_to_hint)
hints_to_params(hints) == HintsLoop(hints, <<>>, <<>>)

\* The assembled program's hints: strictly increasing offsets, each carrying a
\* non-empty hint list
HintLists == UNION {[1..n -> Hints] : n \in 1..MaxHintsAt}
HintOffsets == {<<>>, <<0>>, <<1>>, <<0, 1>>}
HintInputs ==
    UNION {{[i \in 1..Len(offs) |-> <<offs[i], ls[i]>>] : ls \in [1..Len(offs) -> HintLists]}
             : offs \in HintOffsets}

HintsInit ==
    /\ RunInit /\ NoFile /\ outcome = NoOutcome /\ probe = NoProbe /\ entry = NoEntry
    /\ program = <<>>
    /\ \E h \in HintInputs : hinting = [hints |-> h, dict |-> <<>>, s2h |-> <<>>, done |-> FALSE]

BuildHints ==
    /\ ~hinting.done
    /\ LET r == hints_to_params(hinting.hints) IN
       hinting' = [hinting EXCEPT !.dict = r[1], !.s2h = r[2], !.done = TRUE]
    /\ UNCHANGED <<ledger, fileExists, fileCorrupt, running, useFile, fileAtStart, hasAccount,
                   mem, netCalls, runs, last, tick, seenThisRun, okThisRun, mutSeen, acts,
                   probe, outcome, entry, program, bridge>>

HintsSpec == HintsInit /\ [][BuildHints]_vars

\* C16: string_to_hint maps the representing string of every hint of the stream
\* to that hint, and hints_dict holds, for every hinted offset, its whole hint
\* list in order (as HintParams).
C16_HintMaps ==
    hinting.done =>
      LET hs == hinting.hints IN
      /\ DOMAIN hinting.dict = {hs[i][1] : i \in 1..Len(hs)}
      /\ \A i \in 1..Len(hs) :
           /\ hinting.dict[hs[i][1]] = [j \in 1..Len(hs[i][2]) |-> hint_to_hint_params(hs[i][2][j])]
           /\ \A j \in 1..Len(hs[i][2]) :
                /\ representing_string(hs[i][2][j]) \in DOMAIN hinting.s2h
                /\ hinting.s2h[representing_string(hs[i][2][j])] = hs[i][2][j]

C16_Witness ==
    /\ hinting.done /\ Len(hinting.hints) = 2
    /\ Len(hinting.hints[2][2]) = 2
    /\ hinting.hints[2][2][1] /= hinting.hints[2][2][2]

\* C17: a mutating cheat whose kind and fingerprinted inputs equal those of the
\* latest action persisted to the state file hits the cache and makes no submission, whatever
\* its fee settings and nonce.
C17_FeeNonceExcluded ==
    [][(/\ Cheated /\ last'.sel \in Mutating /\ useFile
        /\ acts.saved.sel = acts'.last.sel /\ acts.saved.args = acts'.last.args)
         => (last'.out = "cached" /\ netCalls' = netCalls)]_vars

C17_Witness ==
    /\ last.out = "cached" /\ last.sel = "deploy"
    /\ acts.saved.sel = acts.last.sel /\ acts.saved.args = acts.last.args
    /\ acts.saved.fee /= acts.last.fee /\ acts.saved.nonce /= acts.last.nonce

\* ---------------------------------------------------------------------------
\* The synchronous bridge: runner.run_function (line 389) drives the
\* interpreter on the calling thread; at a cheatcode hint it calls
\* handle_cheatcode, whose arms run their network future with
\* self.tokio_runtime.block_on (lines 117, 147, 182, 220, 245, 257-258), which
\* parks the thread until the future is done; the arm then stores the result
\* and returns it. Here the handler is split at block_on.
\* bridge.phase: "vm" (interpreting), "handler" (in handle_cheatcode before
\* block_on), "blocked" (inside block_on), "returning" (block_on has
\* returned bridge.ok).
\* ---------------------------------------------------------------------------
MaxVmSteps == 1
MaxHints == 2

\* The inputs each arm reads (lines 113-115, 127-129, 166-171, 205-209, 242)
ArmInputs(arm) ==
    CASE arm = "declare" ->
           {[fp |-> generate_declare_tx_id(c), args |-> <<c>>, fee |-> fn[1],
             nonce |-> fn[2], tag |-> <<>>] : c \in Contracts, fn \in FeeNonces}
      [] arm = "deploy" ->
           {[fp |-> generate_deploy_tx_id(ch, cd, sl, u), args |-> <<ch, cd, sl, u>>,
             fee |-> fn[1], nonce |-> fn[2], tag |-> <<>>]
              : ch \in ClassHashes, cd \in Calldatas, sl \in Salts, u \in Uniques,
                fn \in FeeNonces}
      [] arm = "invoke" ->
           {[fp |-> generate_invoke_tx_id(ad, f, cd), args |-> <<ad, f, cd>>,
             fee |-> fn[1], nonce |-> fn[2], tag |-> <<>>]
              : ad \in Addresses, f \in FnSelectors, cd \in Calldatas, fn \in FeeNonces}
      [] arm = "get_nonce" ->
           {[NoArmInput EXCEPT !.tag = t] : t \in BlockTagFelts}
      [] OTHER -> {NoArmInput}

\* Whether the arm reaches its block_on: after a cache miss and an account
\* for declare/deploy/invoke, after the tag conversion and the account for
\* get_nonce, always for call and tx_status
ReachesNetwork(arm, inp) ==
    CASE arm \in Mutating ->
           get_output_if_success(mem, inp.fp) = NoResult /\ hasAccount
      [] arm = "get_nonce" ->
           as_cairo_short_string(inp.tag) /= "None" /\ hasAccount
      [] arm \in {"call", "tx_status"} -> TRUE
      [] OTHER -> FALSE

\* What the handler's return leaves alone, and run_function's Err or the
\* process abort when it ends the run
BridgeReturnFrame ==
    /\ tick' = ~tick
    /\ UNCHANGED <<useFile, fileAtStart, hasAccount, runs, probe, entry, program, hinting>>
    /\ outcome' = IF running' THEN outcome
                  ELSE IF last'.out = "PANIC" THEN Aborted("PANIC")
                  ELSE RunResponse("Err", last'.out)

\* The interpreter executes one instruction
VmStep ==
    /\ running /\ bridge.phase = "vm" /\ bridge.vmSteps < MaxVmSteps
    /\ bridge' = [bridge EXCEPT !.vmSteps = @ + 1]
    /\ UNCHANGED <<ledger, fileExists, fileCorrupt, running, useFile, fileAtStart,
                   hasAccount, mem, netCalls, runs, last, tick, seenThisRun, okThisRun,
                   mutSeen, probe, outcome, entry, program, hinting, acts>>

\* A cheatcode hint: the runtime calls handle_cheatcode with a selector and
\* the input buffer
HintCall ==
    /\ running /\ bridge.phase = "vm" /\ bridge.hints < MaxHints
    /\ \E sel \in Selectors : \E inp \in ArmInputs(Dispatch(sel)) :
         bridge' = [bridge EXCEPT !.phase = "handler", !.sel = sel, !.input = inp,
                                  !.hints = @ + 1]
    /\ UNCHANGED <<ledger, fileExists, fileCorrupt, running, useFile, fileAtStart,
                   hasAccount, mem, netCalls, runs, last, tick, seenThisRun, okThisRun,
                   mutSeen, probe, outcome, entry, program, hinting, acts>>

\* The handler returns before any network call: a cached success, a missing
\* account, the get_nonce tag panic, or the default arm's Forwarded
EarlyReturn ==
    /\ bridge.phase = "handler"
    /\ LET sel == bridge.sel
           arm == Dispatch(sel)
           inp == bridge.input
       IN
       /\ ~ReachesNetwork(arm, inp)
       /\ IF arm \in Mutating
          THEN LET cached == get_output_if_success(mem, inp.fp) IN
               /\ mutSeen' = TRUE
               /\ IF cached /= NoResult THEN MutHit(sel, inp.fp, cached)
                  ELSE MutNoAccount(sel, inp.fp)
               /\ RecordArgs(sel, inp.args, inp.fee, inp.nonce)
          ELSE IF arm = "get_nonce"
          THEN /\ last' = [sel |-> sel, fp |-> <<>>,
                           out |-> IF as_cairo_short_string(inp.tag) = "None"
                                   THEN "PANIC" ELSE "noAccount",
                           res |-> NoResult, tag |-> inp.tag]
               /\ running' = FALSE
               /\ UNCHANGED <<ledger, fileExists, fileCorrupt, mem, netCalls, seenThisRun,
                              okThisRun, mutSeen, acts>>
          ELSE /\ last' = [sel |-> sel, fp |-> <<>>, out |-> "forwarded", res |-> NoResult,
                           tag |-> <<>>]
               /\ \E innerOk \in BOOLEAN : running' = innerOk
               /\ UNCHANGED <<ledger, fileExists, fileCorrupt, mem, netCalls, seenThisRun,
                              okThisRun, mutSeen, acts>>
    /\ bridge' = [bridge EXCEPT !.phase = "vm", !.sel = "none", !.input = NoArmInput]
    /\ BridgeReturnFrame

\* Variant that hands the future to tokio_runtime.spawn and goes on
BlockOnSpawn ==
    /\ bridge.phase = "handler" /\ netCalls < MaxNet
    /\ ReachesNetwork(Dispatch(bridge.sel), bridge.input)
    /\ netCalls' = netCalls + 1
    /\ \E ok \in BOOLEAN :
         bridge' = [bridge EXCEPT !.phase = "returning", !.inFlight = @ + 1, !.ok = ok]
    /\ UNCHANGED <<ledger, fileExists, fileCorrupt, running, useFile, fileAtStart,
                   hasAccount, mem, runs, last, tick, seenThisRun, okThisRun,
                   mutSeen, probe, outcome, entry, program, hinting, acts>>

\* The arm calls block_on(future): the network operation is in flight and
\* the thread waits for it
BlockOn ==
    /\ bridge.phase = "handler" /\ netCalls < MaxNet
    /\ ReachesNetwork(Dispatch(bridge.sel), bridge.input)
    /\ netCalls' = netCalls + 1
    /\ bridge' = [bridge EXCEPT !.phase = "blocked", !.inFlight = @ + 1]
    /\ UNCHANGED <<ledger, fileExists, fileCorrupt, running, useFile, fileAtStart,
                   hasAccount, mem, runs, last, tick, seenThisRun, okThisRun,
                   mutSeen, probe, outcome, entry, program, hinting, acts>>

\* The runtime completes the future (Ok or Err); block_on returns its output
FutureDone ==
    /\ bridge.inFlight > 0
    /\ \E ok \in BOOLEAN :
         bridge' = [bridge EXCEPT !.inFlight = @ - 1,
                                 !.phase = IF @ = "blocked" THEN "returning" ELSE @,
                                 !.ok = IF bridge.phase = "blocked" THEN ok ELSE @]
    /\ UNCHANGED <<ledger, fileExists, fileCorrupt, running, useFile, fileAtStart,
                   hasAccount, mem, netCalls, runs, last, tick, seenThisRun, okThisRun,
                   mutSeen, probe, outcome, entry, program, hinting, acts>>

\* After block_on: a mutating arm stores the result with
\* maybe_insert_tx_entry(...)?; get_nonce's `?` turns an Err into a hint
\* error; call and tx_status serialize the result; then the handler returns
HandlerReturn ==
    /\ bridge.phase = "returning"
    /\ LET sel == bridge.sel
           arm == Dispatch(sel)
           inp == bridge.input
       IN
       IF arm \in Mutating
       THEN /\ mutSeen' = TRUE
            /\ \E writeOk \in BOOLEAN :
                 MutSubmitted(sel, inp.fp, IF bridge.ok THEN Success(netCalls) ELSE Failure,
                              writeOk)
            /\ RecordArgs(sel, inp.args, inp.fee, inp.nonce)
       ELSE IF arm = "get_nonce"
       THEN /\ last' = [sel |-> sel, fp |-> <<>>,
                        out |-> IF bridge.ok THEN "returned" ELSE "error",
                        res |-> NoResult, tag |-> inp.tag]
            /\ running' = bridge.ok
            /\ UNCHANGED <<ledger, fileExists, fileCorrupt, mem, seenThisRun, okThisRun,
                           mutSeen, acts>>
       ELSE /\ last' = [sel |-> sel, fp |-> <<>>, out |-> "returned", res |-> NoResult,
                        tag |-> <<>>]
            /\ UNCHANGED <<ledger, fileExists, fileCorrupt, running, mem, seenThisRun,
                           okThisRun, mutSeen, acts>>
    /\ UNCHANGED netCalls
    /\ bridge' = [bridge EXCEPT !.phase = "vm", !.sel = "none", !.input = NoArmInput,
                                !.ok = FALSE]
    /\ BridgeReturnFrame

BridgeNext ==
    \/ StartRun \/ EndRun \/ Syscall
    \/ VmStep \/ HintCall \/ EarlyReturn \/ BlockOn \/ FutureDone \/ HandlerReturn

\* A first run_function with no state file on disk yet
BridgeInit == Init /\ NoFile

BridgeSpec == BridgeInit /\ [][BridgeNext]_vars

\* C13: at most one network operation is in flight, the interpreter makes no
\* step while one is, and a handler returns to the interpreter only after its
\* network call has completed.
C13_OneInFlight ==
    /\ [](bridge.inFlight <= 1)
    /\ [][bridge'.vmSteps > bridge.vmSteps => bridge.inFlight = 0]_vars
    /\ [][(bridge.phase /= "vm" /\ bridge'.phase = "vm") => bridge.inFlight = 0]_vars

C13_Witness ==
    /\ bridge.phase = "returning" /\ bridge.hints >= 2 /\ bridge.vmSteps >= 1
    /\ DOMAIN ledger /= {}

====
